---- MODULE Spec2Model ----
(***************************************************************************)
(* Dynamic-Forms backend: the schema registry, the dynamic route           *)
(* registration on the Express application stack and the generated CRUD    *)
(* handlers over the in-process store.                                     *)
(*                                                                         *)
(* The repository holds four revisions of the server:                      *)
(*   "server_v1"  src/backend/server.js   lines   1..433                   *)
(*   "server_v2"  src/backend/server.js   lines 435..940                   *)
(*   "part_001"   src/unnamed/part_001                                     *)
(*   "part_000"   src/unnamed/part_000    (database only, no in-process    *)
(*                store; it has its own initial state, InitServerless)     *)
(* The variable `variant` fixes the revision a behaviour runs.             *)
(*                                                                         *)
(* Express dispatches a request to the layers of the application stack in  *)
(* the order in which app.use / app.get mounted them; the first layer that *)
(* answers ends the dispatch.  The /api/debug routes and the error handler *)
(* (never entered by the handlers modelled here) are left out of the stack.*)
(*                                                                         *)
(* Spec is the whole system of the first three revisions.  SpecRegistry    *)
(* (schema registry and dispatch), SpecCrud (create, getById, list),       *)
(* SpecStore (create, update, delete), SpecList (create, list with query   *)
(* parameters), SpecCompile (schema updates and model compilation),        *)
(* SpecBackend (the connection to the database, /health), SpecCreate       *)
(* (create with empty values), SpecReseed (deletes and schema updates),    *)
(* SpecSystem (restarts and the system routes) and SpecCache (two schema   *)
(* updates and the model cache) are parts of the system; SpecServerless is *)
(* part_000.                                                               *)
(*                                                                         *)
(* The handlers of the first three revisions run to completion on the      *)
(* event loop on every path a served request takes (the in-process store), *)
(* so one handler is one action.  The handlers of part_000 await the       *)
(* database; their outcome is fixed by whether the database can be reached *)
(* while they run, and one handler is one action here as well.             *)
(*                                                                         *)
(* Two specifications follow the requests of several clients through a     *)
(* handler, position by position (variable inflight): SpecSerial the       *)
(* schema update, statement by statement, and SpecConnect the handlers of  *)
(* part_000 from one await to the next.                                    *)
(***************************************************************************)
EXTENDS Integers, Sequences, FiniteSets, TLC

VARIABLES
    variant,            \* which revision of the server runs
    currentSchema,      \* let currentSchema
    schemaFile,         \* schemaConfig.json on disk
    stack,              \* the Express application's layer stack (app.use / app.get order)
    registeredRoutes,   \* const registeredRoutes / activeRoutes: entity name -> route
    memoryStore,        \* const memoryStore: entity name -> array of records
    isMongoConnected,   \* let isMongoConnected
    modelCache,         \* const modelCache (server_v2): model name -> model
    now,                \* the wall clock in milliseconds (Date.now())
    mongoStore,         \* the collections of the MongoDB database
    generation,         \* how many times registerAllRoutes ran in this process
    restarts,           \* how many times the process was restarted
    writes,             \* how many update and delete requests changed a collection
    reachable,          \* whether the MongoDB server can be reached now
    inflight,           \* the requests whose handler has not returned yet: client -> position
    request,            \* the request handled last
    response            \* the response sent to it

vars == << variant, currentSchema, schemaFile, stack, registeredRoutes, memoryStore,
           isMongoConnected, modelCache, now, mongoStore, generation, restarts,
           writes, reachable, inflight, request, response >>

----------------------------------------------------------------------------
(* Bounds *)

MaxTime == 2

MaxGeneration == 2

MaxRestarts == 1

MaxRecords == 2

MaxWrites == 2

MaxClients == 2

----------------------------------------------------------------------------
(* Small helpers on maps (JavaScript objects used as dictionaries) *)

EmptyMap == [k \in {} |-> 0]

Put(f, k, v) == [x \in (DOMAIN f) \cup {k} |-> IF x = k THEN v ELSE f[x]]

Min(a, b) == IF a < b THEN a ELSE b

Variants == {"server_v1", "server_v2", "part_001"}

----------------------------------------------------------------------------
(* JavaScript values of record members.  t is the type tag: "s" a string,  *)
(* "n" a number, "b" a boolean, "iso" the string Date.toISOString() yields *)
(* for the instant n.                                                      *)

Str(s) == [t |-> "s", s |-> s, n |-> 0]

Num(n) == [t |-> "n", s |-> "", n |-> n]

Bool(b) == [t |-> "b", s |-> "", n |-> IF b THEN 1 ELSE 0]

Iso(n) == [t |-> "iso", s |-> "", n |-> n]

\* !value
Falsy(val) ==
    CASE val.t = "s" -> val.s = ""
      [] val.t = "n" -> val.n = 0
      [] val.t = "b" -> val.n = 0
      [] OTHER       -> FALSE

----------------------------------------------------------------------------
(* Schema documents *)

Field(t, req) == [type |-> t, required |-> req]

\* A configuration object of one entity.  isNull: the JSON value null.
\* route = "": no route member.  hasFrontend: frontend && frontend.fields.
Cfg(route, hasBackend, hasSchema, schema, hasFrontend) ==
    [isNull |-> FALSE, route |-> route, hasBackend |-> hasBackend,
     hasSchema |-> hasSchema, schema |-> schema, hasFrontend |-> hasFrontend]

NullCfg ==
    [isNull |-> TRUE, route |-> "", hasBackend |-> FALSE,
     hasSchema |-> FALSE, schema |-> EmptyMap, hasFrontend |-> FALSE]

Entry(name, cfg) == [name |-> name, cfg |-> cfg]

\* A request body / schema document: hasRecord is "record is an object".
Doc(entries) == [hasRecord |-> TRUE, record |-> entries]

DocNoRecord == [hasRecord |-> FALSE, record |-> << >>]

EmptySchema == Doc(<< >>)

UsersFields ==
    [name  |-> Field("String", TRUE),
     email |-> Field("String", TRUE),
     phone |-> Field("String", FALSE)]

UsersFieldsExt ==
    [name     |-> Field("String", TRUE),
     email    |-> Field("String", TRUE),
     phone    |-> Field("String", FALSE),
     age      |-> Field("Number", FALSE),
     isActive |-> Field("Boolean", FALSE)]

UsersFieldsLoose == [name |-> Field("String", FALSE)]

ItemsFields == [name |-> Field("String", TRUE)]

DefaultSchema(v) ==
    Doc(<< Entry("users",
                 Cfg("/api/users", TRUE, TRUE,
                     IF v = "part_001" THEN UsersFieldsExt ELSE UsersFields, TRUE)) >>)

\* users keeps its prefix with another configuration; items is new
DocUsersItems ==
    Doc(<< Entry("users", Cfg("/api/users", TRUE, TRUE, UsersFieldsLoose, TRUE)),
           Entry("items", Cfg("/api/items", TRUE, TRUE, ItemsFields, TRUE)) >>)

\* users is gone
DocItemsOnly ==
    Doc(<< Entry("items", Cfg("/api/items", TRUE, TRUE, ItemsFields, TRUE)) >>)

\* a valid entity next to one without route
DocMissingRoute ==
    Doc(<< Entry("users", Cfg("/api/users", TRUE, TRUE, UsersFieldsLoose, TRUE)),
           Entry("items", Cfg("", TRUE, TRUE, ItemsFields, TRUE)) >>)

\* a valid entity next to one without backend block
DocMissingBackend ==
    Doc(<< Entry("items", Cfg("/api/items", FALSE, FALSE, EmptyMap, TRUE)),
           Entry("users", Cfg("/api/users", TRUE, TRUE, UsersFieldsLoose, TRUE)) >>)

\* a route without leading slash
DocNoSlash ==
    Doc(<< Entry("items", Cfg("api/items", TRUE, TRUE, ItemsFields, TRUE)) >>)

\* an entity whose configuration is null
DocNullEntity == Doc(<< Entry("items", NullCfg) >>)

\* an entity mounted on the prefix of the schema endpoint
DocSchemaPrefix ==
    Doc(<< Entry("items", Cfg("/api/schema", TRUE, TRUE, ItemsFields, TRUE)) >>)

\* two entities mounted on one prefix
DocSameRoute ==
    Doc(<< Entry("users", Cfg("/api/users", TRUE, TRUE, UsersFieldsLoose, TRUE)),
           Entry("items", Cfg("/api/users", TRUE, TRUE, ItemsFields, TRUE)) >>)

\* a field whose type is none of String, Number, Boolean, Date, Array
ItemsFieldsText ==
    [name |-> Field("String", TRUE), notes |-> Field("Text", FALSE)]

DocUnknownType ==
    Doc(<< Entry("items", Cfg("/api/items", TRUE, TRUE, ItemsFieldsText, TRUE)) >>)

\* two entity names that differ in the case of the first letter only
DocCollide ==
    Doc(<< Entry("users", Cfg("/api/users", TRUE, TRUE, UsersFieldsLoose, TRUE)),
           Entry("Users", Cfg("/api/items", TRUE, TRUE, ItemsFields, TRUE)) >>)

Docs ==
    { DocUsersItems, DocItemsOnly, DocMissingRoute, DocMissingBackend,
      DocNoRecord, DocNullEntity, DocSchemaPrefix, DocNoSlash }

Names(doc) == { doc.record[i].name : i \in 1..Len(doc.record) }

----------------------------------------------------------------------------
(* Routes and paths *)

\* route.startsWith("/")
StartsWithSlash(route) == route \in {"/api/users", "/api/items", "/api/schema"}

\* The path segments a mount path matches as a prefix of the request path.
Segs(route) ==
    CASE route = "/api/users"  -> << "api", "users" >>
      [] route = "/api/items"  -> << "api", "items" >>
      [] route = "/api/schema" -> << "api", "schema" >>
      [] OTHER                 -> << >>

IsPrefix(p, s) == Len(p) <= Len(s) /\ SubSeq(s, 1, Len(p)) = p

----------------------------------------------------------------------------
(* Layers of the application stack *)

NoModel == [name |-> "", schema |-> EmptyMap, types |-> EmptyMap]

\* app.use(config.route, router): a router built by createRoutes for one
\* entity.  ids: the router declares the routes on /:id.
RouterLayer(route, entity, cfg, model, gen) ==
    [kind |-> "router", route |-> route, entity |-> entity, config |-> cfg,
     model |-> model, gen |-> gen, ids |-> TRUE]

\* app.get / app.post of a system route, and the final app.use 404 handler
SysLayer(kind) ==
    [kind |-> kind, route |-> "", entity |-> "", config |-> NullCfg,
     model |-> NoModel, gen |-> 0, ids |-> FALSE]

\* The system routes in the order in which the module mounts them, after the
\* initial registerAllRoutes() call.
SystemLayers ==
    << SysLayer("root"), SysLayer("health"), SysLayer("getSchema"),
       SysLayer("schemaUpdate"), SysLayer("notFound") >>

\* Whether a layer answers a request (and does not call next()).
\* A router mounted on a prefix answers the routes it declares: GET / and
\* POST /, and (all revisions but part_000) GET /:id, PUT /:id, DELETE /:id.
Handles(layer, method, segs) ==
    CASE layer.kind = "router" ->
            /\ StartsWithSlash(layer.route)
            /\ IsPrefix(Segs(layer.route), segs)
            /\ LET rest == Len(segs) - Len(Segs(layer.route))
               IN  \/ rest = 0 /\ method \in {"GET", "POST"}
                   \/ rest = 1 /\ layer.ids /\ method \in {"GET", "PUT", "DELETE"}
      [] layer.kind = "root"         -> method = "GET" /\ segs = << >>
      [] layer.kind = "health"       -> method = "GET" /\ segs = << "health" >>
      [] layer.kind = "getSchema"    -> method = "GET" /\ segs = << "api", "schema" >>
      [] layer.kind = "schemaUpdate" ->
            method = "POST" /\ segs = << "api", "schema", "update" >>
      [] OTHER -> TRUE

\* Express walks the stack in mount order; the first layer that answers wins.
Serving(st, method, segs) ==
    CHOOSE i \in 1..Len(st) :
        /\ Handles(st[i], method, segs)
        /\ \A j \in 1..(i - 1) : ~Handles(st[j], method, segs)

\* The handler of the layer that answers.
HandlerOf(layer, method, segs) ==
    IF layer.kind = "router"
    THEN IF Len(segs) = Len(Segs(layer.route))
         THEN (IF method = "GET" THEN "list" ELSE "create")
         ELSE (CASE method = "GET" -> "getById"
                 [] method = "PUT" -> "update"
                 [] OTHER          -> "delete")
    ELSE layer.kind

----------------------------------------------------------------------------
(* Model creation (server_v2) *)

\* entityName.charAt(0).toUpperCase() + entityName.slice(1)
ModelName(entityName) ==
    CASE entityName = "users" -> "Users"
      [] entityName = "items" -> "Items"
      [] OTHER                -> entityName

\* createDynamicModel throws when config.schema is undefined
\* (Object.entries(undefined)).
ModelThrows(cfg) == ~cfg.hasSchema

\* The field types the type mapping has a case for
RecognizedTypes == {"String", "Number", "Boolean", "Date", "Array"}

\* switch (fieldConfig.type) { ... default: field.type = String }
compiledType(type) == IF type \in RecognizedTypes THEN type ELSE "String"

\* The cache after createDynamicModel(entityName, config.backend): a cached
\* model of the name is returned as it is, else the model is compiled from
\* config.schema and cached.  types: the type of each path of the compiled
\* mongoose schema.
createDynamicModel(cache, entityName, cfg) ==
    IF ModelName(entityName) \in DOMAIN cache
    THEN cache
    ELSE Put(cache, ModelName(entityName),
             [name   |-> ModelName(entityName),
              schema |-> cfg.schema,
              types  |-> [f \in DOMAIN cfg.schema |-> compiledType(cfg.schema[f].type)]])

----------------------------------------------------------------------------
(* Sample data (part_001) *)

SampleCount == 3

SampleBaseKeys == {"_id", "name", "description", "createdAt", "updatedAt"}

SampleTypes == {"String", "Number", "Boolean", "Date"}

sampleItem(entityName, cfg, i, t) ==
    LET extra == IF cfg.hasBackend /\ cfg.hasSchema
                 THEN { f \in DOMAIN cfg.schema :
                            f \notin SampleBaseKeys /\ cfg.schema[f].type \in SampleTypes }
                 ELSE {}
    IN  [k \in SampleBaseKeys \cup extra |->
            CASE k = "_id"         -> Str("sample_" \o entityName \o "_" \o ToString(i))
              [] k = "name"        -> Str("Sample " \o entityName \o " " \o ToString(i))
              [] k = "description" -> Str("This is a sample " \o entityName \o " item")
              [] k = "createdAt"   -> Iso(t)
              [] k = "updatedAt"   -> Iso(t)
              [] OTHER ->
                    CASE cfg.schema[k].type = "String"  -> Str("Sample " \o k)
                      [] cfg.schema[k].type = "Number"  -> Num(i * 10)
                      [] cfg.schema[k].type = "Boolean" -> Bool(TRUE)
                      [] OTHER                          -> Iso(t) ]

sampleItems(entityName, cfg, t) ==
    [i \in 1..SampleCount |-> sampleItem(entityName, cfg, i, t)]

----------------------------------------------------------------------------
(* registerAllRoutes *)

\* The guard at the head of the forEach body: the entity is skipped.  Reading
\* config.route of a null configuration throws inside the try block, which
\* skips the entity as well.
Skipped(v, cfg) ==
    \/ cfg.isNull
    \/ cfg.route = ""
    \/ v # "part_001" /\ ~cfg.hasBackend

\* One iteration of the forEach over Object.entries(currentSchema.record).
\* acc: [stack, routes, mem, cache]
registerEntity(v, acc, e, connected, gen, t) ==
    IF Skipped(v, e.cfg) THEN acc
    ELSE IF v = "server_v2" /\ connected /\ ModelThrows(e.cfg) THEN acc
    ELSE
      LET cache == IF v = "server_v2" /\ connected
                   THEN createDynamicModel(acc.cache, e.name, e.cfg)
                   ELSE acc.cache
          model == IF v = "server_v2" /\ connected
                   THEN cache[ModelName(e.name)]
                   ELSE NoModel
          seed  == /\ v = "part_001"
                   /\ \/ e.name \notin DOMAIN acc.mem
                      \/ Len(acc.mem[e.name]) = 0
      IN  [stack  |-> Append(acc.stack,
                             RouterLayer(e.cfg.route, e.name, e.cfg, model, gen)),
           routes |-> Put(acc.routes, e.name, e.cfg.route),
           mem    |-> IF seed
                      THEN Put(acc.mem, e.name, sampleItems(e.name, e.cfg, t))
                      ELSE acc.mem,
           cache  |-> cache]

RECURSIVE registerFrom(_, _, _, _, _, _, _)
registerFrom(v, acc, entries, i, connected, gen, t) ==
    IF i > Len(entries) THEN acc
    ELSE registerFrom(v, registerEntity(v, acc, entries[i], connected, gen, t),
                      entries, i + 1, connected, gen, t)

\* registerAllRoutes(): the route map is cleared, the application stack is
\* kept as it is (part_001 filters app._router.stack, but keeps every layer
\* that has no .route, which is every mounted router and the 404 handler, and
\* every system route), and one router per entity is appended.
registerAllRoutes(v, schema, st, mem, cache, connected, gen, t) ==
    registerFrom(v, [stack |-> st, routes |-> EmptyMap, mem |-> mem, cache |-> cache],
                 schema.record, 1, connected, gen, t)

----------------------------------------------------------------------------
(* Requests and responses *)

NoItem == EmptyMap

\* A query parameter the request does not carry
Absent == "<absent>"

\* req.query of a request without query string
NoQuery == [page |-> Absent, limit |-> Absent, search |-> Absent]

NoRequest ==
    [method |-> "", segs |-> << >>, payload |-> EmptyMap, doc |-> DocNoRecord,
     query |-> NoQuery]

\* A JavaScript number: an integer, or NaN
JsNum(n) == [nan |-> FALSE, n |-> n]

NaN == [nan |-> TRUE, n |-> 0]

\* page and limit are the members of the pagination block of a list response,
\* error the error member of the body, missing the field names an error
\* message of create lists, database the database member of /health, warning
\* a warning member (no handler of any revision sends one)
NoResponse ==
    [handler |-> "", layer |-> 0, status |-> 0, doc |-> DocNoRecord,
     item |-> NoItem, items |-> << >>, total |-> 0, page |-> JsNum(0), limit |-> JsNum(0),
     error |-> "", missing |-> {}, database |-> "", warning |-> ""]

Req(method, segs, payload, doc) ==
    [method |-> method, segs |-> segs, payload |-> payload, doc |-> doc,
     query |-> NoQuery]

\* The layer that answers the request, and its handler
ServingLayer(req) == Serving(stack, req.method, req.segs)

ServingHandler(req) == HandlerOf(stack[ServingLayer(req)], req.method, req.segs)

Resp(req, status) ==
    [NoResponse EXCEPT !.handler = ServingHandler(req), !.layer = ServingLayer(req),
                       !.status = status]

\* The request bodies of create
PayloadPlain == [name |-> Str("w"), email |-> Str("e")]

PayloadOther == [name |-> Str("v"), email |-> Str("e")]

\* a body that carries its own _id, createdAt and updatedAt
PayloadOwnKeys ==
    ("_id" :> Str("client1")) @@
    [name |-> Str("w"), email |-> Str("e"), createdAt |-> Iso(-1), updatedAt |-> Iso(-1)]

\* a body in which a required field is present with a falsy value
PayloadFalsy == [name |-> Str(""), email |-> Str("e")]

Payloads == { PayloadPlain, PayloadOther, PayloadOwnKeys, EmptyMap }

\* The prefixes requests are sent to
Prefixes == { << "api", "users" >>, << "api", "items" >>, << "api", "schema" >> }

\* The ids requests ask for: the ids of all stored records, the id the last
\* request asked for, and one more
RequestIds ==
    UNION { { memoryStore[e][i]["_id"].s : i \in 1..Len(memoryStore[e]) } :
            e \in DOMAIN memoryStore }
    \cup (IF Len(request.segs) = 3 THEN { request.segs[3] } ELSE {})
    \cup {"missing"}

----------------------------------------------------------------------------
(* The generated handlers: helpers *)

\* isMongoConnected && Model
UsesMongo(layer) == isMongoConnected /\ layer.model # NoModel

\* memoryStore[entity] || []
Collection(mem, entityName) ==
    IF entityName \in DOMAIN mem THEN mem[entityName] ELSE << >>

\* getCollection() of part_001 creates the array when it is missing
Touched(v, mem, entityName) ==
    IF v = "part_001" /\ entityName \notin DOMAIN mem
    THEN Put(mem, entityName, << >>)
    ELSE mem

\* Date.now().toString() in server.js,
\* `item_${Date.now()}_${Math.random().toString(36).substr(2, 9)}` in part_001
generateId(v, t, rnd) ==
    IF v = "part_001" THEN "item_" \o ToString(t) \o "_" \o rnd ELSE ToString(t)

\* The values Math.random().toString(36).substr(2, 9) yields
RandSuffixes == {"r1", "r2"}

ServerKeys == {"createdAt", "updatedAt"}

\* { _id: <id>, ...req.body, createdAt: <t1>, updatedAt: <t2> }
newItem(id, body, t1, t2) ==
    [k \in {"_id"} \cup (DOMAIN body) \cup ServerKeys |->
        CASE k = "createdAt"   -> Iso(t1)
          [] k = "updatedAt"   -> Iso(t2)
          [] k \in DOMAIN body -> body[k]
          [] OTHER             -> Str(id)]

\* !newItem[field]: the member is absent or falsy
Missing(item, field) ==
    \/ field \notin DOMAIN item
    \/ Falsy(item[field])

\* The required fields of the schema that the new item lacks
missingFields(cfg, item) ==
    IF cfg.hasBackend /\ cfg.hasSchema
    THEN { f \in DOMAIN cfg.schema : cfg.schema[f].required /\ Missing(item, f) }
    ELSE {}

\* A lookup that answers the last record for an id no record has
FindIndexOrLast(items, id) ==
    IF \E i \in 1..Len(items) : items[i]["_id"] = Str(id)
    THEN CHOOSE i \in 1..Len(items) :
            /\ items[i]["_id"] = Str(id)
            /\ \A j \in 1..(i - 1) : items[j]["_id"] # Str(id)
    ELSE Len(items)

\* The error member of the 404 body of getById, update and delete
NotFoundError(v) == IF v = "server_v2" THEN "Not found" ELSE "Item not found"

\* res.status(404).json({ success: false, error: ... })
ItemNotFound(req) == [Resp(req, 404) EXCEPT !.error = NotFoundError(variant)]

\* items.find((i) => i._id === req.params.id): the first record with the id
FindIndex(items, id) ==
    IF \E i \in 1..Len(items) : items[i]["_id"] = Str(id)
    THEN CHOOSE i \in 1..Len(items) :
            /\ items[i]["_id"] = Str(id)
            /\ \A j \in 1..(i - 1) : items[j]["_id"] # Str(id)
    ELSE 0

\* An update that stores the payload in place of the record:
\* { _id, ...req.body, updatedAt }
replaceItem(old, body, t) ==
    [k \in {"_id"} \cup (DOMAIN body) \cup {"updatedAt"} |->
        CASE k = "updatedAt"   -> Iso(t)
          [] k \in DOMAIN body -> body[k]
          [] OTHER             -> old[k]]

\* { ...items[index], ...req.body, updatedAt: new Date().toISOString() }
mergeItem(old, body, t) ==
    [k \in (DOMAIN old) \cup (DOMAIN body) \cup {"updatedAt"} |->
        CASE k = "updatedAt"   -> Iso(t)
          [] k \in DOMAIN body -> body[k]
          [] OTHER             -> old[k]]

\* A delete that removes the first record with the id only:
\* items.splice(items.findIndex(...), 1)
removeFirstById(items, id) ==
    IF FindIndex(items, id) = 0 THEN items
    ELSE SubSeq(items, 1, FindIndex(items, id) - 1)
            \o SubSeq(items, FindIndex(items, id) + 1, Len(items))

\* items.filter((i) => i._id !== req.params.id)
removeById(items, id) == SelectSeq(items, LAMBDA it : it["_id"] # Str(id))

\* The request bodies of update
UpdateRename == [name |-> Str("v")]

\* a body that carries _id, and a createdAt and an updatedAt later than any
\* clock reading
UpdateOwnKeys ==
    ("_id" :> Str("client1")) @@
    [createdAt |-> Iso(MaxTime + 1), updatedAt |-> Iso(MaxTime + 1)]

UpdatePayloads == { EmptyMap, UpdateRename, UpdateOwnKeys }

----------------------------------------------------------------------------
(* Strings and numbers of the list handler *)

CharAt(str, i) == SubSeq(str, i, i)

Digits == "0123456789"

IsDigit(c) == \E i \in 1..Len(Digits) : CharAt(Digits, i) = c

DigitVal(c) == (CHOOSE i \in 1..Len(Digits) : CharAt(Digits, i) = c) - 1

\* The value of the digits str[i..j]
RECURSIVE digitsValue(_, _, _)
digitsValue(str, i, j) ==
    IF j < i THEN 0 ELSE 10 * digitsValue(str, i, j - 1) + DigitVal(CharAt(str, j))

\* The end of the longest run of digits that starts at str[i]
RECURSIVE digitsEnd(_, _)
digitsEnd(str, i) ==
    IF i <= Len(str) /\ IsDigit(CharAt(str, i)) THEN digitsEnd(str, i + 1) ELSE i - 1

\* parseInt(str): an optional sign and the longest run of digits after it
parseInt(str) ==
    LET neg   == Len(str) > 0 /\ CharAt(str, 1) = "-"
        first == IF neg THEN 2 ELSE 1
        last  == digitsEnd(str, first)
    IN  IF last < first THEN NaN
        ELSE JsNum((IF neg THEN -1 ELSE 1) * digitsValue(str, first, last))

\* The number a string is coerced to by - and *: the whole string is a
\* decimal integer, or the string is empty (0); NaN otherwise
coerce(str) ==
    LET neg   == Len(str) > 0 /\ CharAt(str, 1) = "-"
        first == IF neg THEN 2 ELSE 1
        last  == digitsEnd(str, first)
    IN  IF Len(str) = 0 THEN JsNum(0)
        ELSE IF last < first \/ last # Len(str) THEN NaN
        ELSE JsNum((IF neg THEN -1 ELSE 1) * digitsValue(str, first, last))

\* a - b and a * b
Minus(a, b) == IF a.nan \/ b.nan THEN NaN ELSE JsNum(a.n - b.n)

Times(a, b) == IF a.nan \/ b.nan THEN NaN ELSE JsNum(a.n * b.n)

\* c.toLowerCase() of one character
lowerChar(c) ==
    CASE c = "A" -> "a" [] c = "B" -> "b" [] c = "C" -> "c" [] c = "D" -> "d"
      [] c = "E" -> "e" [] c = "F" -> "f" [] c = "G" -> "g" [] c = "H" -> "h"
      [] c = "I" -> "i" [] c = "J" -> "j" [] c = "K" -> "k" [] c = "L" -> "l"
      [] c = "M" -> "m" [] c = "N" -> "n" [] c = "O" -> "o" [] c = "P" -> "p"
      [] c = "Q" -> "q" [] c = "R" -> "r" [] c = "S" -> "s" [] c = "T" -> "t"
      [] c = "U" -> "u" [] c = "V" -> "v" [] c = "W" -> "w" [] c = "X" -> "x"
      [] c = "Y" -> "y" [] c = "Z" -> "z"
      [] OTHER -> c

\* str.toLowerCase().includes(part.toLowerCase())
includesLower(str, part) ==
    \E i \in 1..(Len(str) - Len(part) + 1) :
        \A j \in 1..Len(part) :
            lowerChar(CharAt(str, i + j - 1)) = lowerChar(CharAt(part, j))

\* str.trim() is empty
IsBlank(str) == \A i \in 1..Len(str) : CharAt(str, i) = " "

\* Date.prototype.toISOString() of the instant n milliseconds after the
\* epoch, for -1000 < n < 1000
toISOString(n) ==
    LET ms  == IF n < 0 THEN 1000 + n ELSE n
        pad == IF ms < 10 THEN "00" ELSE IF ms < 100 THEN "0" ELSE ""
    IN  (IF n < 0 THEN "1969-12-31T23:59:59." ELSE "1970-01-01T00:00:00.")
            \o pad \o ToString(ms) \o "Z"

\* String(val)
String(val) ==
    CASE val.t = "s"   -> val.s
      [] val.t = "n"   -> ToString(val.n)
      [] val.t = "b"   -> IF val.n = 1 THEN "true" ELSE "false"
      [] OTHER         -> toISOString(val.n)

Max(a, b) == IF a > b THEN a ELSE b

\* An end an array of length len is sliced at, from the argument of slice
sliceIndex(x, len) ==
    IF x.nan THEN 0
    ELSE IF x.n < 0 THEN Max(len + x.n, 0)
    ELSE Min(x.n, len)

\* An inclusive end: array.slice(start, end + 1)
SliceInclusive(items, start, end) ==
    SubSeq(items, sliceIndex(start, Len(items)) + 1,
           Min(sliceIndex(end, Len(items)) + 1, Len(items)))

\* array.slice(start, end)
Slice(items, start, end) ==
    SubSeq(items, sliceIndex(start, Len(items)) + 1, sliceIndex(end, Len(items)))

\* The comparator of part_001's sort for sortBy = "createdAt", sortOrder =
\* "desc": a goes before b when a.createdAt > b.createdAt.
SortsBefore(a, b) == a["createdAt"].n > b["createdAt"].n

insertSorted(acc, x) ==
    LET pos == IF \E j \in 1..Len(acc) : SortsBefore(x, acc[j])
               THEN CHOOSE j \in 1..Len(acc) :
                        /\ SortsBefore(x, acc[j])
                        /\ \A k \in 1..(j - 1) : ~SortsBefore(x, acc[k])
               ELSE Len(acc) + 1
    IN  SubSeq(acc, 1, pos - 1) \o << x >> \o SubSeq(acc, pos, Len(acc))

RECURSIVE sortFrom(_, _, _)
sortFrom(items, i, acc) ==
    IF i > Len(items) THEN acc
    ELSE sortFrom(items, i + 1, insertSorted(acc, items[i]))

\* Array.prototype.sort is stable
sortItems(items) == sortFrom(items, 1, << >>)

DefaultLimit == 10

----------------------------------------------------------------------------
(* Requests in flight.  The event loop runs one callback at a time, and a   *)
(* callback runs until it returns or awaits.                               *)

Clients == 1..MaxClients

\* pc: the position of the handler; "idle": the client has no request
Idle == [op |-> "", pc |-> "idle", doc |-> DocNoRecord]

NoneInFlight == [c \in Clients |-> Idle]

----------------------------------------------------------------------------
(* Start-up *)

NoFile == [exists |-> FALSE, doc |-> DocNoRecord]

File(doc) == [exists |-> TRUE, doc |-> doc]

\* The schema the module loads: the file's document, or the default one.
\* part_001 writes the default to the file; when that write throws, the
\* catch block leaves { record: {} }.
loadedSchema(v, file, writeOk) ==
    IF file.exists THEN file.doc
    ELSE IF v = "part_001" /\ ~writeOk THEN EmptySchema
    ELSE DefaultSchema(v)

loadedFile(v, file, writeOk) ==
    IF ~file.exists /\ v = "part_001" /\ writeOk THEN File(DefaultSchema(v)) ELSE file

\* Module evaluation: load the schema, registerAllRoutes() on the empty
\* stack with isMongoConnected still false, then mount the system routes
\* and the 404 handler.
Boot(v, file, writeOk, t) ==
    LET reg == registerAllRoutes(v, loadedSchema(v, file, writeOk), << >>,
                                 EmptyMap, EmptyMap, FALSE, 1, t)
    IN  /\ variant' = v
        /\ currentSchema' = loadedSchema(v, file, writeOk)
        /\ schemaFile' = loadedFile(v, file, writeOk)
        /\ stack' = reg.stack \o SystemLayers
        /\ registeredRoutes' = reg.routes
        /\ memoryStore' = reg.mem
        /\ modelCache' = reg.cache
        /\ isMongoConnected' = FALSE
        /\ generation' = 1
        /\ inflight' = NoneInFlight
        /\ request' = NoRequest
        /\ response' = NoResponse

NoMongo == [coll |-> EmptyMap, inserted |-> 0]

Init ==
    \E v \in Variants, writeOk \in BOOLEAN :
        LET reg == registerAllRoutes(v, loadedSchema(v, NoFile, writeOk), << >>,
                                     EmptyMap, EmptyMap, FALSE, 1, 0)
        IN  /\ variant = v
            /\ currentSchema = loadedSchema(v, NoFile, writeOk)
            /\ schemaFile = loadedFile(v, NoFile, writeOk)
            /\ stack = reg.stack \o SystemLayers
            /\ registeredRoutes = reg.routes
            /\ memoryStore = reg.mem
            /\ modelCache = reg.cache
            /\ isMongoConnected = FALSE
            /\ generation = 1
            /\ request = NoRequest
            /\ response = NoResponse
            /\ now = 0
            /\ mongoStore = NoMongo
            /\ restarts = 0
            /\ writes = 0
            /\ reachable = TRUE
            /\ inflight = NoneInFlight

\* The process is stopped and started again: memory is lost, the file and
\* the database stay.
Restart ==
    /\ restarts < MaxRestarts
    /\ restarts' = restarts + 1
    /\ \E writeOk \in BOOLEAN : Boot(variant, schemaFile, writeOk, now)
    /\ UNCHANGED << now, mongoStore, writes, reachable >>

\* Time passes
Tick ==
    /\ now < MaxTime
    /\ now' = now + 1
    /\ UNCHANGED << inflight, reachable, variant, currentSchema, schemaFile, stack, registeredRoutes,
                    memoryStore, isMongoConnected, modelCache, mongoStore,
                    generation, restarts, writes, request, response >>

\* mongoose.connect(...).then(() => { isMongoConnected = true })
MongoConnected ==
    /\ reachable
    /\ ~isMongoConnected
    /\ isMongoConnected' = TRUE
    /\ UNCHANGED << inflight, reachable, variant, currentSchema, schemaFile, stack, registeredRoutes,
                    memoryStore, modelCache, now, mongoStore, generation, restarts, writes,
                    request, response >>

\* The MongoDB server goes down or the network to it breaks.  No revision
\* listens to the connection's events, so no variable of the program changes.
StoreLost ==
    /\ reachable
    /\ reachable' = FALSE
    /\ UNCHANGED << inflight, variant, currentSchema, schemaFile, stack, registeredRoutes,
                    memoryStore, isMongoConnected, modelCache, now, mongoStore,
                    generation, restarts, writes, request, response >>

\* The MongoDB server can be reached again
StoreBack ==
    /\ ~reachable
    /\ reachable' = TRUE
    /\ UNCHANGED << inflight, variant, currentSchema, schemaFile, stack, registeredRoutes,
                    memoryStore, isMongoConnected, modelCache, now, mongoStore,
                    generation, restarts, writes, request, response >>

\* Object.values(currentSchema.record).map((c) => c.route) in the body of a
\* system route of server_v1: it throws on a null configuration
routesThrow(v, schema) ==
    /\ v = "server_v1"
    /\ \E i \in 1..Len(schema.record) : schema.record[i].cfg.isNull

\* The error handler app.use((err, req, res, next) => ...) answers a handler
\* that threw
ServerError(req) == [Resp(req, 500) EXCEPT !.error = "Internal server error"]

\* database: isMongoConnected ? "connected" : "in-memory"
databaseState(connected) == IF connected THEN "connected" ELSE "in-memory"

\* app.get("/health")
Health ==
    LET req == Req("GET", << "health" >>, EmptyMap, DocNoRecord)
    IN  /\ ServingHandler(req) = "health"
        /\ request' = req
        /\ response' = IF routesThrow(variant, currentSchema) THEN ServerError(req)
                       ELSE [Resp(req, 200) EXCEPT
                                !.database = databaseState(isMongoConnected)]
        /\ UNCHANGED << inflight, reachable, variant, currentSchema, schemaFile, stack, registeredRoutes,
                        memoryStore, isMongoConnected, modelCache, now, mongoStore,
                        generation, restarts, writes >>

----------------------------------------------------------------------------
(* Schema endpoints *)

\* app.get("/api/schema")
GetSchema ==
    LET req == Req("GET", << "api", "schema" >>, EmptyMap, DocNoRecord)
    IN  /\ ServingHandler(req) = "getSchema"
        /\ request' = req
        /\ response' = [Resp(req, 200) EXCEPT !.doc = currentSchema]
        /\ UNCHANGED << inflight, reachable, variant, currentSchema, schemaFile, stack, registeredRoutes,
                        memoryStore, isMongoConnected, modelCache, now, mongoStore,
                        generation, restarts, writes >>

\* The per-entity validation of part_001; reading config.route of a null
\* configuration throws a TypeError, which the catch block answers alike.
entityRejected(cfg) ==
    \/ cfg.isNull
    \/ cfg.route = ""
    \/ ~StartsWithSlash(cfg.route)
    \/ ~cfg.hasBackend
    \/ ~cfg.hasSchema
    \/ ~cfg.hasFrontend

\* The checks that throw before currentSchema is assigned
validationFails(v, doc) ==
    \/ ~doc.hasRecord
    \/ /\ v = "part_001"
       /\ \E i \in 1..Len(doc.record) : entityRejected(doc.record[i].cfg)

\* server_v1 builds the response with Object.values(newSchema.record).map((c)
\* => c.route), which throws on a null configuration
responseThrows(v, doc) ==
    /\ v = "server_v1"
    /\ \E i \in 1..Len(doc.record) : doc.record[i].cfg.isNull

\* app.post("/api/schema/update") with a body of the set documents, as long
\* as registerAllRoutes has run fewer than limit times in this process
SubmitWithin(documents, limit) ==
    \E doc \in documents, writeOk \in BOOLEAN :
      LET req == Req("POST", << "api", "schema", "update" >>, EmptyMap, doc)
          reg == registerAllRoutes(variant, doc, stack, memoryStore,
                                   IF variant = "server_v2" THEN EmptyMap ELSE modelCache,
                                   isMongoConnected, generation + 1, now)
      IN  /\ generation < limit
          /\ ServingHandler(req) = "schemaUpdate"
          /\ request' = req
          /\ IF validationFails(variant, doc)
             THEN /\ response' = Resp(req, 400)
                  /\ UNCHANGED << currentSchema, schemaFile, stack, registeredRoutes,
                                  memoryStore, modelCache, generation >>
             ELSE IF variant = "part_001" /\ ~writeOk
             THEN \* fs.writeFileSync throws outside any inner try block
                  /\ currentSchema' = doc
                  /\ response' = Resp(req, 400)
                  /\ UNCHANGED << schemaFile, stack, registeredRoutes, memoryStore,
                                  modelCache, generation >>
             ELSE /\ currentSchema' = doc
                  /\ schemaFile' = IF writeOk THEN File(doc) ELSE schemaFile
                  /\ stack' = reg.stack
                  /\ registeredRoutes' = reg.routes
                  /\ memoryStore' = reg.mem
                  /\ modelCache' = reg.cache
                  /\ generation' = generation + 1
                  /\ response' = Resp(req, IF responseThrows(variant, doc) THEN 400 ELSE 200)
          /\ UNCHANGED << inflight, reachable, variant, isMongoConnected, now, mongoStore, restarts, writes >>

\* The update handler statement by statement, for requests of several
\* clients.  The positions of a handler that has begun and not yet returned:
\* "assigned" after currentSchema = newSchema, "written" after the file write
Begun == {"assigned", "written"}

\* The positions at which the handler gives the event loop back before it
\* returns: app.post("/api/schema/update", (req, res) => { ... }) is not async,
\* fs.writeFileSync blocks and registerAllRoutes() is a plain call
YieldsAsIfAwaited(pc) == pc = "written"

Yields(pc) == FALSE

\* The event loop runs one callback to its end or to its next yield: client c
\* gets a turn when no other handler is between two statements
Turn(c) ==
    \A q \in Clients \ {c} : inflight[q].pc \in Begun => Yields(inflight[q].pc)

SubmitDocs == { DocUsersItems, DocItemsOnly, DocNoRecord }

\* POST /api/schema/update of client c has arrived and waits for the loop
SubmitArrives ==
    \E c \in Clients, doc \in SubmitDocs :
        /\ inflight[c].pc = "idle"
        /\ inflight' = [inflight EXCEPT ![c] =
                          [op |-> "schemaUpdate", pc |-> "queued", doc |-> doc]]
        /\ UNCHANGED << reachable, variant, currentSchema, schemaFile, stack, registeredRoutes,
                        memoryStore, isMongoConnected, modelCache, now, mongoStore,
                        generation, restarts, writes, request, response >>

\* The handler starts: the validation, then currentSchema = newSchema
SubmitAssigns ==
    \E c \in Clients :
      LET doc == inflight[c].doc
          req == Req("POST", << "api", "schema", "update" >>, EmptyMap, doc)
      IN  /\ inflight[c].pc = "queued"
          /\ Turn(c)
          /\ generation <= MaxGeneration
          /\ ServingHandler(req) = "schemaUpdate"
          /\ IF validationFails(variant, doc)
             THEN /\ inflight' = [inflight EXCEPT ![c] = Idle]
                  /\ request' = req
                  /\ response' = Resp(req, 400)
                  /\ UNCHANGED currentSchema
             ELSE /\ inflight' = [inflight EXCEPT ![c].pc = "assigned"]
                  /\ currentSchema' = doc
                  /\ UNCHANGED << request, response >>
          /\ UNCHANGED << reachable, variant, schemaFile, stack, registeredRoutes,
                          memoryStore, isMongoConnected, modelCache, now, mongoStore,
                          generation, restarts, writes >>

\* fs.writeFileSync(schemaPath, ...): caught and logged in server.js, thrown
\* to the outer catch in part_001
SubmitWrites ==
    \E c \in Clients, writeOk \in BOOLEAN :
      LET doc == inflight[c].doc
          req == Req("POST", << "api", "schema", "update" >>, EmptyMap, doc)
      IN  /\ inflight[c].pc = "assigned"
          /\ Turn(c)
          /\ IF variant = "part_001" /\ ~writeOk
             THEN /\ inflight' = [inflight EXCEPT ![c] = Idle]
                  /\ request' = req
                  /\ response' = Resp(req, 400)
                  /\ UNCHANGED schemaFile
             ELSE /\ inflight' = [inflight EXCEPT ![c].pc = "written"]
                  /\ schemaFile' = IF writeOk THEN File(doc) ELSE schemaFile
                  /\ UNCHANGED << request, response >>
          /\ UNCHANGED << reachable, variant, currentSchema, stack, registeredRoutes,
                          memoryStore, isMongoConnected, modelCache, now, mongoStore,
                          generation, restarts, writes >>

\* The model cache is cleared (server.js 889), registerAllRoutes() runs on
\* currentSchema and the handler answers
SubmitRegisters ==
    \E c \in Clients :
      LET doc == inflight[c].doc
          req == Req("POST", << "api", "schema", "update" >>, EmptyMap, doc)
          reg == registerAllRoutes(variant, currentSchema, stack, memoryStore,
                                   IF variant = "server_v2" THEN EmptyMap ELSE modelCache,
                                   isMongoConnected, generation + 1, now)
      IN  /\ inflight[c].pc = "written"
          /\ Turn(c)
          /\ inflight' = [inflight EXCEPT ![c] = Idle]
          /\ stack' = reg.stack
          /\ registeredRoutes' = reg.routes
          /\ memoryStore' = reg.mem
          /\ modelCache' = reg.cache
          /\ generation' = generation + 1
          /\ request' = req
          /\ response' = Resp(req, IF responseThrows(variant, doc) THEN 400 ELSE 200)
          /\ UNCHANGED << reachable, variant, currentSchema, schemaFile, isMongoConnected,
                          now, mongoStore, restarts, writes >>

\* Concurrent schema updates
NextSerial ==
    \/ SubmitArrives
    \/ SubmitAssigns
    \/ SubmitWrites
    \/ SubmitRegisters

SpecSerial == Init /\ [][NextSerial]_vars

Submit(documents) == SubmitWithin(documents, MaxGeneration)

SchemaUpdate == Submit(Docs)

\* Two schema updates in a row: the second finds the models of the first
CacheDocs == { DocUsersItems, DocMissingBackend }

SubmitAgain == SubmitWithin(CacheDocs, MaxGeneration + 1)

\* The documents that put the compilation of models to the test
CompileDocs == { DocUsersItems, DocSameRoute, DocNoSlash, DocUnknownType, DocCollide }

SubmitCompiled == Submit(CompileDocs)

\* app.use((req, res) => res.status(404)...)
NotFound ==
    \E p \in Prefixes, method \in {"GET", "POST"} :
      LET req == Req(method, p, EmptyMap, DocNoRecord)
      IN  /\ ServingHandler(req) = "notFound"
          /\ request' = req
          /\ response' = IF routesThrow(variant, currentSchema) THEN ServerError(req)
                         ELSE Resp(req, 404)
          /\ UNCHANGED << inflight, reachable, variant, currentSchema, schemaFile, stack, registeredRoutes,
                          memoryStore, isMongoConnected, modelCache, now, mongoStore,
                          generation, restarts, writes >>

----------------------------------------------------------------------------
(* The persistent store behind a mongoose Model (taken only when           *)
(* isMongoConnected && Model holds for the router that answers)            *)

MongoCollection(name) ==
    IF name \in DOMAIN mongoStore.coll THEN mongoStore.coll[name] ELSE << >>

\* new Model(req.body).save(): members the body lacks are filled in
mongoDoc(body, t) ==
    [k \in {"_id"} \cup (DOMAIN body) \cup ServerKeys |->
        CASE k \in DOMAIN body -> body[k]
          [] k = "_id"         -> Str("oid" \o ToString(mongoStore.inserted))
          [] OTHER             -> Iso(t)]

\* The required validator of the compiled mongoose schema
mongoInvalid(model, body) ==
    \E f \in DOMAIN model.schema : model.schema[f].required /\ Missing(body, f)

----------------------------------------------------------------------------
(* The generated CRUD handlers *)

\* A record registerAllRoutes of part_001 has seeded
SampleIds ==
    { Str("sample_" \o e \o "_" \o ToString(i)) :
        e \in {"users", "items", "Users"}, i \in 1..SampleCount }

IsSample(item) == item["_id"] \in SampleIds

\* How many stored records create has added
Created(mem) ==
    Cardinality({ << e, i >> \in (DOMAIN mem) \X (1..(MaxRecords + SampleCount)) :
                    i <= Len(mem[e]) /\ ~IsSample(mem[e][i]) })

\* router.post("/") with a request body of the set bodies, Math.random()
\* yielding a suffix of the set suffixes
Create(bodies, suffixes) ==
    \E p \in Prefixes, body \in bodies, rnd \in suffixes, d \in 0..1 :
      LET req   == Req("POST", p, body, DocNoRecord)
          L     == stack[ServingLayer(req)]
          items == Collection(memoryStore, L.entity)
          id    == generateId(variant, now, rnd)
          t1    == now
          t2    == now + d
          item  == newItem(id, body, t1, t2)
          doc   == mongoDoc(body, t1)
      IN  /\ ServingHandler(req) = "create"
          /\ t2 <= MaxTime
          /\ request' = req
          /\ now' = t2
          /\ IF UsesMongo(L)
             THEN /\ Len(MongoCollection(L.model.name)) < MaxRecords
                  /\ IF mongoInvalid(L.model, body)
                     THEN /\ response' = Resp(req, 400)
                          /\ UNCHANGED mongoStore
                     ELSE /\ mongoStore' =
                                [coll |-> Put(mongoStore.coll, L.model.name,
                                              Append(MongoCollection(L.model.name), doc)),
                                 inserted |-> mongoStore.inserted + 1]
                          /\ response' = [Resp(req, 201) EXCEPT !.item = doc]
                  /\ UNCHANGED memoryStore
             ELSE /\ Created(memoryStore) < MaxRecords
                  \* two calls of Math.random() do not yield the same suffix
                  /\ variant = "part_001" =>
                        \A i \in 1..Len(items) : items[i]["_id"] # Str(id)
                  /\ IF variant = "part_001" /\ missingFields(L.config, item) # {}
                     THEN /\ response' = [Resp(req, 400) EXCEPT
                                            !.error = "Missing required fields",
                                            !.missing = missingFields(L.config, item)]
                          /\ memoryStore' = Touched(variant, memoryStore, L.entity)
                     ELSE /\ memoryStore' = Put(memoryStore, L.entity, Append(items, item))
                          /\ response' = [Resp(req, 201) EXCEPT !.item = item]
                  /\ UNCHANGED mongoStore
          /\ UNCHANGED << inflight, reachable, variant, currentSchema, schemaFile, stack, registeredRoutes,
                          isMongoConnected, modelCache, generation, restarts, writes >>

CreateItem == Create(Payloads, RandSuffixes)

\* router.post("/") with a body without and a body with _id and timestamps
CreateKeyed == Create({PayloadPlain, PayloadOwnKeys}, {"r1"})

\* router.get("/:id")
GetItem ==
    \E p \in Prefixes, id \in RequestIds :
      LET req   == Req("GET", p \o << id >>, EmptyMap, DocNoRecord)
          L     == stack[ServingLayer(req)]
          items == IF UsesMongo(L) THEN MongoCollection(L.model.name)
                   ELSE Collection(memoryStore, L.entity)
          idx   == FindIndex(items, id)
      IN  /\ ServingHandler(req) = "getById"
          /\ request' = req
          /\ response' = IF idx = 0 THEN ItemNotFound(req)
                         ELSE [Resp(req, 200) EXCEPT !.item = items[idx]]
          /\ memoryStore' = IF UsesMongo(L) THEN memoryStore
                            ELSE Touched(variant, memoryStore, L.entity)
          /\ UNCHANGED << inflight, reachable, variant, currentSchema, schemaFile, stack, registeredRoutes,
                          isMongoConnected, modelCache, now, mongoStore, generation,
                          restarts, writes >>

\* Object.values(item).some((val) => String(val).toLowerCase().includes(
\* searchLower)); part_001 skips the falsy values
matches(v, item, term) ==
    \E k \in DOMAIN item :
        /\ v = "part_001" => ~Falsy(item[k])
        /\ includesLower(String(item[k]), term)

\* The $or of $regex conditions over the fields declared with type "String"
\* (persistent store); without such a field the query has no condition
matchesMongo(cfg, item, term) ==
    LET stringFields == { f \in DOMAIN cfg.schema : cfg.schema[f].type = "String" }
    IN  \/ stringFields = {}
        \/ \E f \in stringFields \cap (DOMAIN item) :
              /\ item[f].t = "s"
              /\ includesLower(item[f].s, term)

\* if (search) ...; part_001: if (search && search.trim()) ...
filterItems(v, mongo, cfg, items, term) ==
    IF term = "" \/ (v = "part_001" /\ IsBlank(term)) THEN items
    ELSE IF mongo THEN SelectSeq(items, LAMBDA it : matchesMongo(cfg, it, term))
    ELSE SelectSeq(items, LAMBDA it : matches(v, it, term))

DefaultPage == 1

\* The list handler on the items of a collection: the filter, the sort
\* (part_001 and the persistent store), the slice and the pagination block.
\* server.js 96-133 and part_001 compute the slice from (page - 1) * limit and
\* page * limit on the query strings, server.js 621-692 from parseInt of them.
listResult(v, mongo, cfg, items, query) ==
    LET term     == IF query.search = Absent THEN "" ELSE query.search
        filtered == filterItems(v, mongo, cfg, items, term)
        sorted   == IF mongo \/ v = "part_001" THEN sortItems(filtered) ELSE filtered
        pageInt  == IF query.page = Absent THEN JsNum(DefaultPage) ELSE parseInt(query.page)
        limitInt == IF query.limit = Absent THEN JsNum(DefaultLimit)
                    ELSE parseInt(query.limit)
        pageNum  == IF query.page = Absent THEN JsNum(DefaultPage)
                    ELSE IF v = "server_v2" THEN pageInt ELSE coerce(query.page)
        limitNum == IF query.limit = Absent THEN JsNum(DefaultLimit)
                    ELSE IF v = "server_v2" THEN limitInt ELSE coerce(query.limit)
        startIndex == Times(Minus(pageNum, JsNum(1)), limitNum)
        endIndex   == Times(pageNum, limitNum)
    IN  [data  |-> Slice(sorted, startIndex, endIndex),
         total |-> Len(filtered),
         page  |-> pageInt,
         limit |-> limitInt]

\* router.get("/") with the query parameters of the sets pages, limits, terms
List(pages, limits, terms) ==
    \E p \in Prefixes, page \in pages, limit \in limits, search \in terms :
      LET req    == [Req("GET", p, EmptyMap, DocNoRecord) EXCEPT
                        !.query = [page |-> page, limit |-> limit, search |-> search]]
          L      == stack[ServingLayer(req)]
          items  == IF UsesMongo(L) THEN MongoCollection(L.model.name)
                    ELSE Collection(memoryStore, L.entity)
          result == listResult(variant, UsesMongo(L), L.config, items, req.query)
      IN  /\ ServingHandler(req) = "list"
          /\ request' = req
          /\ response' = [Resp(req, 200) EXCEPT !.items = result.data,
                                                !.total = result.total,
                                                !.page  = result.page,
                                                !.limit = result.limit]
          /\ memoryStore' = IF UsesMongo(L) THEN memoryStore
                            ELSE Touched(variant, memoryStore, L.entity)
          /\ UNCHANGED << inflight, reachable, variant, currentSchema, schemaFile, stack, registeredRoutes,
                          isMongoConnected, modelCache, now, mongoStore, generation,
                          restarts, writes >>

\* router.get("/") without query parameters: page 1, limit 10, no search
ListItems == List({Absent}, {Absent}, {Absent})

\* The query parameters of list requests
PageParams == { Absent, "1", "2", "0", "abc" }

LimitParams == { Absent, "1", "2", "-1", "2x" }

SearchTerms == { "W", "z" }

\* router.get("/") with page and limit
ListPaged == List(PageParams, LimitParams, {Absent})

\* router.get("/") with a search term
ListSearched == List({Absent}, {Absent, "1"}, SearchTerms)

\* router.put("/:id")
UpdateItem ==
    \E p \in Prefixes, id \in RequestIds, body \in UpdatePayloads :
      LET req    == Req("PUT", p \o << id >>, body, DocNoRecord)
          L      == stack[ServingLayer(req)]
          items  == IF UsesMongo(L) THEN MongoCollection(L.model.name)
                    ELSE Collection(memoryStore, L.entity)
          idx    == FindIndex(items, id)
          merged == mergeItem(items[idx], body, now)
      IN  /\ ServingHandler(req) = "update"
          /\ request' = req
          /\ IF idx = 0
             THEN /\ response' = ItemNotFound(req)
                  /\ memoryStore' = IF UsesMongo(L) THEN memoryStore
                                    ELSE Touched(variant, memoryStore, L.entity)
                  /\ UNCHANGED << mongoStore, writes >>
             ELSE /\ writes < MaxWrites
                  /\ writes' = writes + 1
                  /\ response' = [Resp(req, 200) EXCEPT !.item = merged]
                  /\ IF UsesMongo(L)
                     THEN /\ mongoStore' =
                                [mongoStore EXCEPT
                                    !.coll = Put(mongoStore.coll, L.model.name,
                                                 [items EXCEPT ![idx] = merged])]
                          /\ UNCHANGED memoryStore
                     ELSE /\ memoryStore' = Put(memoryStore, L.entity,
                                                [items EXCEPT ![idx] = merged])
                          /\ UNCHANGED mongoStore
          /\ UNCHANGED << inflight, reachable, variant, currentSchema, schemaFile, stack, registeredRoutes,
                          isMongoConnected, modelCache, now, generation, restarts >>

\* router.delete("/:id"), as long as fewer than limit requests have changed a
\* collection
Delete(limit) ==
    \E p \in Prefixes, id \in RequestIds :
      LET req      == Req("DELETE", p \o << id >>, EmptyMap, DocNoRecord)
          L        == stack[ServingLayer(req)]
          items    == IF UsesMongo(L) THEN MongoCollection(L.model.name)
                      ELSE Collection(memoryStore, L.entity)
          filtered == removeById(items, id)
      IN  /\ ServingHandler(req) = "delete"
          /\ request' = req
          /\ IF Len(filtered) = Len(items)
             THEN /\ response' = ItemNotFound(req)
                  /\ memoryStore' = IF UsesMongo(L) THEN memoryStore
                                    ELSE Touched(variant, memoryStore, L.entity)
                  /\ UNCHANGED << mongoStore, writes >>
             ELSE /\ writes < limit
                  /\ writes' = writes + 1
                  /\ response' = Resp(req, 200)
                  /\ IF UsesMongo(L)
                     THEN /\ mongoStore' =
                                [mongoStore EXCEPT
                                    !.coll = Put(mongoStore.coll, L.model.name, filtered)]
                          /\ UNCHANGED memoryStore
                     ELSE /\ memoryStore' = Put(memoryStore, L.entity, filtered)
                          /\ UNCHANGED mongoStore
          /\ UNCHANGED << inflight, reachable, variant, currentSchema, schemaFile, stack, registeredRoutes,
                          isMongoConnected, modelCache, now, generation, restarts >>

DeleteItem == Delete(MaxWrites)

\* router.delete("/:id"), often enough to empty a collection of sample records
DeleteSample == Delete(SampleCount)

----------------------------------------------------------------------------
(* part_000: every request goes to the database *)

\* schemaConfig of part_000.  Its literal is left out of the source; the
\* documents here are the default schema of server.js and one with two
\* entities.
ServerlessSchemas == { DefaultSchema("server_v2"), DocUsersItems }

\* Object.entries(schemaConfig.record).forEach(...): one router with a
\* compiled model per entity, as registerAllRoutes of server.js builds them
\* when the database is connected; the routers declare GET / and POST / only.
serverlessRouters(schema) ==
    LET reg == registerAllRoutes("server_v2", schema, << >>, EmptyMap, EmptyMap, TRUE, 1, 0)
    IN  [stack |-> [i \in 1..Len(reg.stack) |-> [reg.stack[i] EXCEPT !.ids = FALSE]],
         cache |-> reg.cache]

\* The routers, app.get("/"), app.get("/health"), and the handler Express
\* ends the stack with
InitServerless ==
    \E doc \in ServerlessSchemas, canReach \in BOOLEAN :
        /\ variant = "part_000"
        /\ currentSchema = doc
        /\ schemaFile = NoFile
        /\ stack = serverlessRouters(doc).stack
                      \o << SysLayer("root"), SysLayer("health"), SysLayer("notFound") >>
        /\ registeredRoutes = EmptyMap
        /\ memoryStore = EmptyMap
        /\ modelCache = serverlessRouters(doc).cache
        /\ isMongoConnected = FALSE
        /\ generation = 1
        /\ request = NoRequest
        /\ response = NoResponse
        /\ now = 0
        /\ mongoStore = NoMongo
        /\ restarts = 0
        /\ writes = 0
        /\ reachable = canReach
        /\ inflight = NoneInFlight

\* await connectDB(): returns at once when isConnected is set, else connects
\* (and throws after serverSelectionTimeoutMS when the server is not reached,
\* or at once when MONGODB_URI is not defined)
connectDB(connected, canReach) ==
    [throws |-> ~connected /\ ~canReach, connected |-> connected \/ canReach]

\* router.get("/") of part_000
ServerlessList ==
    \E p \in Prefixes :
      LET req == Req("GET", p, EmptyMap, DocNoRecord)
          L   == stack[ServingLayer(req)]
          c   == connectDB(isMongoConnected, reachable)
      IN  /\ ServingHandler(req) = "list"
          /\ request' = req
          /\ isMongoConnected' = c.connected
          /\ response' = IF c.throws \/ ~reachable
                         THEN [Resp(req, 500) EXCEPT !.error = "e.message"]
                         ELSE [Resp(req, 200) EXCEPT !.items = MongoCollection(L.model.name)]
          /\ UNCHANGED << inflight, reachable, variant, currentSchema, schemaFile, stack, registeredRoutes,
                          memoryStore, modelCache, now, mongoStore, generation, restarts,
                          writes >>

\* router.post("/") of part_000
ServerlessCreate ==
    \E p \in Prefixes, body \in {PayloadPlain, EmptyMap} :
      LET req == Req("POST", p, body, DocNoRecord)
          L   == stack[ServingLayer(req)]
          c   == connectDB(isMongoConnected, reachable)
          doc == mongoDoc(body, now)
      IN  /\ ServingHandler(req) = "create"
          /\ Len(MongoCollection(L.model.name)) < MaxRecords
          /\ request' = req
          /\ isMongoConnected' = c.connected
          /\ IF c.throws \/ ~reachable \/ mongoInvalid(L.model, body)
             THEN /\ response' = [Resp(req, 400) EXCEPT !.error = "e.message"]
                  /\ UNCHANGED mongoStore
             ELSE /\ mongoStore' =
                        [coll |-> Put(mongoStore.coll, L.model.name,
                                      Append(MongoCollection(L.model.name), doc)),
                         inserted |-> mongoStore.inserted + 1]
                  /\ response' = [Resp(req, 201) EXCEPT !.item = doc]
          /\ UNCHANGED << inflight, reachable, variant, currentSchema, schemaFile, stack, registeredRoutes,
                          memoryStore, modelCache, now, generation, restarts, writes >>

\* app.get("/health") of part_000
ServerlessHealth ==
    LET req == Req("GET", << "health" >>, EmptyMap, DocNoRecord)
        c   == connectDB(isMongoConnected, reachable)
    IN  /\ ServingHandler(req) = "health"
        /\ request' = req
        /\ isMongoConnected' = c.connected
        /\ response' = IF c.throws
                       THEN [Resp(req, 503) EXCEPT !.error = "e.message"]
                       ELSE [Resp(req, 200) EXCEPT !.database = "connected"]
        /\ UNCHANGED << inflight, reachable, variant, currentSchema, schemaFile, stack, registeredRoutes,
                        memoryStore, modelCache, now, mongoStore, generation, restarts,
                        writes >>

\* The handlers of part_000 by their awaits.  A request of client c arrives
\* and its handler runs into connectDB(): with isConnected set connectDB
\* returns, else it calls mongoose.connect and awaits the connection.
ServerlessBegin ==
    \E c \in Clients, op \in {"health", "list"} :
        /\ inflight[c].pc = "idle"
        /\ inflight' = [inflight EXCEPT ![c] =
                          [op |-> op,
                           pc |-> IF isMongoConnected THEN "connected" ELSE "connecting",
                           doc |-> DocNoRecord]]
        /\ UNCHANGED << reachable, variant, currentSchema, schemaFile, stack, registeredRoutes,
                        memoryStore, isMongoConnected, modelCache, now, mongoStore,
                        generation, restarts, writes, request, response >>

\* mongoose.connect settles: isConnected = db.connections[0].readyState === 1,
\* or the rejection after serverSelectionTimeoutMS
ConnectSettles ==
    \E c \in Clients :
        /\ inflight[c].pc = "connecting"
        /\ inflight' = [inflight EXCEPT ![c].pc = IF reachable THEN "connected" ELSE "failed"]
        /\ isMongoConnected' = (isMongoConnected \/ reachable)
        /\ UNCHANGED << reachable, variant, currentSchema, schemaFile, stack, registeredRoutes,
                        memoryStore, modelCache, now, mongoStore, generation, restarts,
                        writes, request, response >>

\* The handler goes on after await connectDB() and answers
ServerlessEnd ==
    \E c \in Clients :
      LET op   == inflight[c].op
          req  == Req("GET", IF op = "health" THEN << "health" >> ELSE << "api", "users" >>,
                      EmptyMap, DocNoRecord)
          L    == stack[ServingLayer(req)]
          fail == inflight[c].pc = "failed"
      IN  /\ inflight[c].pc \in {"connected", "failed"}
          /\ ServingHandler(req) = op
          /\ inflight' = [inflight EXCEPT ![c] = Idle]
          /\ request' = req
          /\ response' =
                IF op = "health"
                THEN (IF fail THEN [Resp(req, 503) EXCEPT !.error = "e.message"]
                      ELSE [Resp(req, 200) EXCEPT !.database = "connected"])
                ELSE (IF fail \/ ~reachable
                      THEN [Resp(req, 500) EXCEPT !.error = "e.message"]
                      ELSE [Resp(req, 200) EXCEPT !.items = MongoCollection(L.model.name)])
          /\ UNCHANGED << reachable, variant, currentSchema, schemaFile, stack, registeredRoutes,
                          memoryStore, isMongoConnected, modelCache, now, mongoStore,
                          generation, restarts, writes >>

\* Concurrent requests to part_000
NextConnect ==
    \/ StoreLost
    \/ StoreBack
    \/ ServerlessBegin
    \/ ConnectSettles
    \/ ServerlessEnd

SpecConnect == InitServerless /\ [][NextConnect]_vars

NextServerless ==
    \/ StoreLost
    \/ StoreBack
    \/ ServerlessList
    \/ ServerlessCreate
    \/ ServerlessHealth

SpecServerless == InitServerless /\ [][NextServerless]_vars

----------------------------------------------------------------------------

Next ==
    \/ Restart
    \/ Tick
    \/ MongoConnected
    \/ StoreLost
    \/ StoreBack
    \/ Health
    \/ SchemaUpdate
    \/ GetSchema
    \/ NotFound
    \/ CreateItem
    \/ GetItem
    \/ ListItems
    \/ UpdateItem
    \/ DeleteItem
    \/ ListPaged
    \/ ListSearched

Spec == Init /\ [][Next]_vars

\* The schema registry and the dispatch of requests, on the collections as
\* they are after start-up
NextRegistry ==
    \/ Restart
    \/ MongoConnected
    \/ SchemaUpdate
    \/ GetSchema
    \/ NotFound
    \/ GetItem
    \/ ListItems

SpecRegistry == Init /\ [][NextRegistry]_vars

\* The generated handlers under the schema loaded at start-up
NextCrud ==
    \/ Tick
    \/ MongoConnected
    \/ NotFound
    \/ CreateItem
    \/ GetItem
    \/ ListItems

SpecCrud == Init /\ [][NextCrud]_vars

\* The handlers that write a collection, under the schema loaded at start-up
NextStore ==
    \/ CreateKeyed
    \/ UpdateItem
    \/ DeleteItem

SpecStore == Init /\ [][NextStore]_vars

\* Schema updates before and after the connection to the database is
\* established, and what the routers answer then
NextCompile ==
    \/ MongoConnected
    \/ SubmitCompiled
    \/ GetSchema
    \/ NotFound
    \/ ListItems

SpecCompile == Init /\ [][NextCompile]_vars

\* A schema update that registers the routers again
Resubmit == Submit({DocUsersItems})

\* The connection to the database as it comes and goes, the health endpoint
\* and the generated handlers
NextBackend ==
    \/ MongoConnected
    \/ StoreLost
    \/ StoreBack
    \/ Health
    \/ Resubmit
    \/ CreateKeyed
    \/ GetItem
    \/ ListItems

SpecBackend == Init /\ [][NextBackend]_vars

\* router.post("/") with a body whose required fields are truthy, and one
\* in which a required field is the empty string
CreateFalsy == Create({PayloadPlain, PayloadFalsy}, {"r1"})

\* create and the reads, under the schema loaded at start-up
NextCreate ==
    \/ CreateFalsy
    \/ GetItem
    \/ ListItems

SpecCreate == Init /\ [][NextCreate]_vars

\* The schema endpoints and the system routes, over restarts
NextSystem ==
    \/ Restart
    \/ SchemaUpdate
    \/ GetSchema
    \/ Health
    \/ NotFound

SpecSystem == Init /\ [][NextSystem]_vars

\* Schema updates that follow one another while the database is connected
NextCache ==
    \/ MongoConnected
    \/ SubmitAgain
    \/ GetSchema
    \/ ListItems

SpecCache == Init /\ [][NextCache]_vars

\* Deletes and schema updates
NextReseed ==
    \/ DeleteSample
    \/ Resubmit

SpecReseed == Init /\ [][NextReseed]_vars

\* create and list, under the schema loaded at start-up
CreateNamed == Create({PayloadPlain, PayloadOther}, RandSuffixes)

NextList ==
    \/ CreateNamed
    \/ ListPaged
    \/ ListSearched

SpecList == Init /\ [][NextList]_vars

----------------------------------------------------------------------------
(* Properties of the schema registry *)

\* A configuration the schema update is meant to accept
ValidCfg(cfg) ==
    /\ ~cfg.isNull
    /\ StartsWithSlash(cfg.route)
    /\ cfg.hasBackend
    /\ cfg.hasSchema
    /\ cfg.hasFrontend

\* The layer that answers GET <route> now
ListLayer(route) == stack[Serving(stack, "GET", Segs(route))]

\* The last request was a schema update that answered 200
UpdateAccepted == response.handler = "schemaUpdate" /\ response.status = 200

\* This step is the handling of a POST /api/schema/update
UpdateStep ==
    /\ request'.segs = << "api", "schema", "update" >>
    /\ \/ request' # request
       \/ response' # response
       \/ currentSchema' # currentSchema
       \/ generation' # generation

CrudHandlers == {"list", "getById", "create", "update", "delete"}

\* C1: after an accepted schema update with document D, a request to the
\* route prefix of every (well-formed) entity E of D is answered by a router
\* generated for E, not by the 404 handler.
C1_EveryEntityOfUpdateIsRouted ==
    UpdateAccepted =>
        \A i \in 1..Len(request.doc.record) :
            LET e == request.doc.record[i]
            IN  ValidCfg(e.cfg) =>
                    /\ ListLayer(e.cfg.route).kind = "router"
                    /\ ListLayer(e.cfg.route).entity = e.name

\* C2: when the latest registration built a router for entity E on the prefix
\* E had before, with another configuration, a CRUD request to that prefix is
\* answered by that router and by no router of an earlier registration.
C2_ServedByNewConfiguration ==
    response.handler \in CrudHandlers =>
        LET L == stack[response.layer]
        IN  ~ \E j \in 1..Len(stack) :
                /\ stack[j].kind = "router"
                /\ stack[j].gen = generation
                /\ stack[j].entity = L.entity
                /\ stack[j].route = L.route
                /\ stack[j].config # L.config

\* C3: the application stack never holds two generated routers mounted on
\* the same route prefix.
C3_OneRouterPerPrefix ==
    \A i, j \in 1..Len(stack) :
        (i < j /\ stack[i].kind = "router" /\ stack[j].kind = "router")
            => stack[i].route # stack[j].route

\* C4: after an accepted schema update whose document no longer contains
\* entity E, a request to E's former route prefix is answered by the 404
\* handler.
C4_RemovedEntityAnswers404 ==
    UpdateAccepted =>
        \A i \in 1..Len(stack) :
            ( /\ stack[i].kind = "router"
              /\ StartsWithSlash(stack[i].route)
              /\ stack[i].entity \notin Names(request.doc) )
                => ListLayer(stack[i].route).kind = "notFound"

\* A document with a valid entity next to an invalid one
MixedDocument(doc) ==
    /\ doc.hasRecord
    /\ \E i \in 1..Len(doc.record) : ValidCfg(doc.record[i].cfg)
    /\ \E i \in 1..Len(doc.record) : ~ValidCfg(doc.record[i].cfg)

\* C5: a schema update whose document holds an invalid entity next to a valid
\* one is rejected as a whole: it answers 400 and leaves the current schema,
\* the route map and the mounted routers as they were.
C5_MixedDocumentRejected ==
    [][ (UpdateStep /\ MixedDocument(request'.doc))
            => ( /\ response'.status = 400
                 /\ UNCHANGED << currentSchema, registeredRoutes, stack >> ) ]_vars

\* C6: a schema update that answers 400 leaves the current schema, the route
\* map and the mounted routers unchanged.
C6_RejectedUpdateChangesNothing ==
    [][ (UpdateStep /\ response'.status = 400)
            => UNCHANGED << currentSchema, registeredRoutes, stack >> ]_vars

\* C7: a GET /api/schema that directly follows an accepted schema update with
\* document D answers with D.
C7_GetSchemaReturnsSubmitted ==
    [][ ( /\ UpdateAccepted
          /\ request' # request
          /\ request'.method = "GET"
          /\ request'.segs = << "api", "schema" >> )
            => ( /\ response'.status = 200
                 /\ response'.doc = request.doc ) ]_vars

\* C8: the schema GET /api/schema returns always corresponds to the route set
\* that serves requests: every well-formed entity of currentSchema is served
\* by a router built from its configuration, and every router that serves a
\* prefix was built from the configuration currentSchema has for its entity.
C8_ServingRoutesMatchSchema ==
    /\ \A i \in 1..Len(currentSchema.record) :
          LET e == currentSchema.record[i]
          IN  ValidCfg(e.cfg) =>
                  /\ ListLayer(e.cfg.route).kind = "router"
                  /\ ListLayer(e.cfg.route).entity = e.name
                  /\ ListLayer(e.cfg.route).config = e.cfg
    /\ \A i \in 1..Len(stack) :
          (stack[i].kind = "router" /\ Serving(stack, "GET", Segs(stack[i].route)) = i)
              => \E k \in 1..Len(currentSchema.record) :
                    /\ currentSchema.record[k].name = stack[i].entity
                    /\ currentSchema.record[k].cfg = stack[i].config

\* Every route of the document starts with "/" and no two entities of it
\* have the same route
DistinctPrefixes(doc) ==
    /\ \A i \in 1..Len(doc.record) : StartsWithSlash(doc.record[i].cfg.route)
    /\ \A i, j \in 1..Len(doc.record) :
          i # j => doc.record[i].cfg.route # doc.record[j].cfg.route

\* C30: a schema update with a document in which two entities have the same
\* route prefix, or a prefix does not begin with "/", is rejected; in the
\* schema in force every prefix belongs to exactly one entity.
C30_PrefixesDistinctAndRooted ==
    /\ UpdateAccepted => DistinctPrefixes(request.doc)
    /\ \A i, j \in 1..Len(currentSchema.record) :
          i # j => currentSchema.record[i].cfg.route # currentSchema.record[j].cfg.route

\* C28: no model is compiled from a schema that declares a field of a type
\* other than String, Number, Boolean, Date and Array.
C28_UnknownTypeCompilesNoModel ==
    \A n \in DOMAIN modelCache :
        \A f \in DOMAIN modelCache[n].schema :
            modelCache[n].schema[f].type \in RecognizedTypes

\* C29: no two entities that registerAllRoutes registered in one run are
\* bound to a model of the same name, and the model an entity is bound to
\* is compiled from that entity's schema.
C29_ModelNamesDoNotCollide ==
    \A i, j \in 1..Len(stack) :
        ( /\ stack[i].kind = "router"
          /\ stack[j].kind = "router"
          /\ stack[i].model # NoModel
          /\ stack[j].model # NoModel
          /\ stack[i].gen = stack[j].gen
          /\ stack[i].entity # stack[j].entity )
            => ( /\ stack[i].model.name # stack[j].model.name
                 /\ stack[i].model.schema = stack[i].config.schema )

\* C31: when a schema update passes the validation with a document of
\* well-formed entities and the write of schemaConfig.json fails (the file
\* does not hold the document afterwards), the update succeeds all the
\* same: currentSchema is the document, the routes are registered again,
\* the response is a success and carries a warning.
C31_WriteFailureIsAWarning ==
    [][ ( /\ UpdateStep
          /\ request'.doc.hasRecord
          /\ \A i \in 1..Len(request'.doc.record) : ValidCfg(request'.doc.record[i].cfg)
          /\ schemaFile' # File(request'.doc) )
            => ( /\ currentSchema' = request'.doc
                 /\ generation' = generation + 1
                 /\ response'.status = 200
                 /\ response'.warning # "" ) ]_vars

\* The document has an entity with the model name that is neither skipped
\* nor fails to compile
CompilesIn(doc, modelName) ==
    \E i \in 1..Len(doc.record) :
        /\ ModelName(doc.record[i].name) = modelName
        /\ ~Skipped("server_v2", doc.record[i].cfg)
        /\ ~ModelThrows(doc.record[i].cfg)

\* C33: a schema update evicts a model from the cache only when the new
\* document has an entity of that model name that compiles; every other
\* cached model is in the cache after the update as it was before.
C33_EvictOnlyRecompiled ==
    [][ (UpdateStep /\ request'.doc.hasRecord) =>
            \A n \in DOMAIN modelCache :
                ~CompilesIn(request'.doc, n) =>
                    (n \in DOMAIN modelCache' /\ modelCache'[n] = modelCache[n]) ]_vars

SystemHandlers == {"root", "health", "getSchema", "notFound"}

\* C35: currentSchema always has a record member that maps every entity
\* name to a configuration (not null), and no system route fails on it.
C35_SchemaAlwaysWellFormed ==
    /\ currentSchema.hasRecord
    /\ \A i \in 1..Len(currentSchema.record) : ~currentSchema.record[i].cfg.isNull
    /\ response.handler \in SystemHandlers => response.status # 500

\* C36: a schema update changes no stored record: every collection the
\* store holds before the update holds the same records after it, also a
\* collection that is empty because its records were deleted.
C36_UpdateKeepsRecords ==
    [][ UpdateStep =>
            \A e \in DOMAIN memoryStore :
                Collection(memoryStore', e) = memoryStore[e] ]_vars

----------------------------------------------------------------------------
(* Properties of create and getById *)

ServerAssigned == {"_id", "createdAt", "updatedAt"}

\* The last request was a create that answered 201
CreateAccepted == response.handler = "create" /\ response.status = 201

\* C9: a getById with the id create returned, issued directly after the
\* create, answers 200 with the record create returned: the members of the
\* payload plus _id, createdAt and updatedAt.
C9_GetAfterCreateReturnsRecord ==
    [][ ( /\ CreateAccepted
          /\ response.item["_id"].t = "s"
          /\ request'.method = "GET"
          /\ request'.segs = request.segs \o << response.item["_id"].s >> )
            => ( /\ response'.status = 200
                 /\ response'.item = response.item
                 /\ \A k \in (DOMAIN request.payload) \ ServerAssigned :
                        response'.item[k] = request.payload[k] ) ]_vars

\* C10: the record create stores and returns never carries the _id,
\* createdAt or updatedAt value of the payload (the payloads of this model
\* carry values the server does not generate).
C10_ClientValuesIgnored ==
    CreateAccepted =>
        \A k \in ServerAssigned \cap (DOMAIN request.payload) :
            response.item[k] # request.payload[k]

\* C26: a request for one record by id has exactly two outcomes: 200 with the
\* stored record that has the id, or 404 with the error "Item not found".
C26_GetByIdOutcomes ==
    response.handler = "getById" =>
        \/ /\ response.status = 200
           /\ response.error = ""
           /\ response.item # NoItem
           /\ response.item["_id"] = Str(request.segs[3])
           /\ \E i \in 1..Len(Collection(memoryStore, stack[response.layer].entity)) :
                 Collection(memoryStore, stack[response.layer].entity)[i] = response.item
        \/ /\ response.status = 404
           /\ response.item = NoItem
           /\ response.error = "Item not found"

\* The required fields of a configuration that a request body does not carry
AbsentRequired(cfg, body) ==
    { f \in DOMAIN cfg.schema : cfg.schema[f].required /\ f \notin DOMAIN body }

\* C25: a create request whose body lacks a required field of the entity's
\* schema answers 400, the error names every such field, and no collection
\* changes.
C25_CreateRejectsMissingRequired ==
    [][ LET absent == AbsentRequired(stack[response'.layer].config, request'.payload)
        IN  ( /\ request'.method = "POST"
              /\ response'.handler = "create"
              /\ absent # {} )
                => ( /\ response'.status = 400
                     /\ absent \subseteq response'.missing
                     /\ \A e \in (DOMAIN memoryStore) \cup (DOMAIN memoryStore') :
                            Collection(memoryStore', e) = Collection(memoryStore, e) ) ]_vars

\* C37: a create request whose body carries every required field of the
\* entity's schema, whatever the values, answers 201 and appends exactly one
\* record, the one it returns, to the collection.
C37_CreateAcceptsPresentFields ==
    [][ ( /\ request'.method = "POST"
          /\ response'.handler = "create"
          /\ AbsentRequired(stack[response'.layer].config, request'.payload) = {} ) =>
            LET before == Collection(memoryStore, stack[response'.layer].entity)
                after  == Collection(memoryStore', stack[response'.layer].entity)
            IN  /\ response'.status = 201
                /\ after = Append(before, response'.item) ]_vars

----------------------------------------------------------------------------
(* Properties of the choice of the backend *)

\* C22: the backend is chosen anew on every call (of the revision that has
\* both backends): a request to a generated handler reads and writes the
\* persistent store when the connection is established and the store can be
\* reached at the time of the call, also when the handler was registered
\* before, and the in-process store when the store cannot be reached.
C22_BackendChosenPerCall ==
    [][ (variant = "server_v2" /\ response'.handler \in CrudHandlers) =>
            /\ (isMongoConnected /\ reachable) => UsesMongo(stack[response'.layer])
            /\ ~reachable => ~UsesMongo(stack[response'.layer]) ]_vars

\* The handler of this step calls the persistent store
StoreCalled == variant = "part_000" \/ UsesMongo(stack[response'.layer])

\* C23: a request to a generated handler whose call of the persistent store
\* fails, because the store cannot be reached, does not fail: it is answered
\* with success from a fallback store.
C23_StoreFailureFallsBack ==
    [][ ( /\ response'.handler \in CrudHandlers
          /\ StoreCalled
          /\ ~reachable
          /\ UNCHANGED reachable )
            => response'.status \in {200, 201} ]_vars

\* The clients whose update handler has passed the validation and has not
\* finished the re-registration of the routes
Updating == { c \in Clients : inflight[c].pc \in Begun }

\* C32: schema updates are serialised: at most one update is between its
\* validation and the end of its re-registration, and while it is there
\* currentSchema is the document it submitted.
C32_UpdatesSerialized ==
    /\ Cardinality(Updating) <= 1
    /\ \A c \in Updating : currentSchema = inflight[c].doc

\* An update is half-way while the update of another client waits
C32_Witness ==
    \E c, q \in Clients :
        /\ inflight[c].pc = "written"
        /\ inflight[q].pc = "queued"
        /\ inflight[q].doc # inflight[c].doc

\* The clients whose request has called mongoose.connect and awaits it
Connecting == { c \in Clients : inflight[c].pc = "connecting" }

\* C39: connectDB opens the connection at most once: never two calls of
\* mongoose.connect are pending, and no request calls it while isConnected
\* is set.
C39_ConnectsOnce ==
    /\ [](Cardinality(Connecting) <= 1)
    /\ [][ isMongoConnected => Connecting' \subseteq Connecting ]_vars

\* C24: GET /health reports the database as connected exactly when the
\* connection is established and the store can be reached at the time of the
\* call.
C24_HealthReportsConnectivity ==
    [][ (response'.handler = "health" /\ UNCHANGED << isMongoConnected, reachable >>) =>
            (response'.database = "connected" <=> (isMongoConnected /\ reachable)) ]_vars

----------------------------------------------------------------------------
(* Properties of update and delete *)

\* The collection of the router that answered the last request
Answered == Collection(memoryStore, stack[response.layer].entity)

\* This step is a PUT that changed a record; Old is the record it addressed
UpdateDone ==
    /\ response'.handler = "update"
    /\ response'.status = 200
    /\ writes' = writes + 1

OldIndex ==
    FindIndex(Collection(memoryStore, stack[response'.layer].entity), request'.segs[3])

Old == Collection(memoryStore, stack[response'.layer].entity)[OldIndex]

\* C11: no collection ever holds two records with the same _id.
C11_IdsUnique ==
    \A e \in DOMAIN memoryStore :
        \A i, j \in 1..Len(memoryStore[e]) :
            i < j => memoryStore[e][i]["_id"] # memoryStore[e][j]["_id"]

\* C12: the record an update returns and stores has the _id and the createdAt
\* the addressed record had before, whatever the payload carries.
C12_UpdateKeepsIdAndCreatedAt ==
    [][ UpdateDone =>
            /\ response'.item["_id"] = Old["_id"]
            /\ response'.item["createdAt"] = Old["createdAt"] ]_vars

\* C13 as stated: in the addressed record every member of the payload takes
\* the payload's value and every member the payload lacks keeps its value, and
\* every other record of the collection is unchanged.
C13_UpdateIsShallowMerge ==
    [][ UpdateDone =>
            LET before == Collection(memoryStore, stack[response'.layer].entity)
                after  == Collection(memoryStore', stack[response'.layer].entity)
                body   == request'.payload
            IN  /\ Len(after) = Len(before)
                /\ \A i \in 1..Len(before) : i # OldIndex => after[i] = before[i]
                /\ after[OldIndex] = response'.item
                /\ \A k \in DOMAIN body : after[OldIndex][k] = body[k]
                /\ \A k \in (DOMAIN Old) \ (DOMAIN body) : after[OldIndex][k] = Old[k] ]_vars

\* C13 as amended: the same, for every member other than updatedAt, which
\* the update sets to the time of the request; the record has no member
\* beyond those of the prior record and of the payload.
C13_UpdateMergesAllButUpdatedAt ==
    [][ UpdateDone =>
            LET before == Collection(memoryStore, stack[response'.layer].entity)
                after  == Collection(memoryStore', stack[response'.layer].entity)
                body   == request'.payload
            IN  /\ Len(after) = Len(before)
                /\ \A i \in 1..Len(before) : i # OldIndex => after[i] = before[i]
                /\ after[OldIndex] = response'.item
                /\ DOMAIN after[OldIndex] = (DOMAIN Old) \cup (DOMAIN body)
                /\ \A k \in (DOMAIN body) \ {"updatedAt"} : after[OldIndex][k] = body[k]
                /\ \A k \in (DOMAIN Old) \ ((DOMAIN body) \cup {"updatedAt"}) :
                        after[OldIndex][k] = Old[k]
                /\ after[OldIndex]["updatedAt"] = Iso(now) ]_vars

\* An update with a payload of one member has changed that member of one
\* record of a collection of several, and the record kept its other members
C13_Witness ==
    /\ response.handler = "update"
    /\ response.status = 200
    /\ request.payload = UpdateRename
    /\ Len(Answered) >= 2
    /\ \E i \in 1..Len(Answered) :
          /\ Answered[i] = response.item
          /\ Answered[i]["name"] = Str("v")
          /\ "email" \in DOMAIN Answered[i]
    /\ \E i \in 1..Len(Answered) : Answered[i]["name"] # Str("v")

\* C14: every stored record has updatedAt >= createdAt.
C14_UpdatedNotBeforeCreated ==
    \A e \in DOMAIN memoryStore :
        \A i \in 1..Len(memoryStore[e]) :
            memoryStore[e][i]["updatedAt"].n >= memoryStore[e][i]["createdAt"].n

\* C15: a PUT with an empty body on an existing record leaves every member
\* other than updatedAt as it was and sets updatedAt to an instant strictly
\* later than the record's createdAt.
C15_EmptyPutAdvancesUpdatedAt ==
    [][ (UpdateDone /\ request'.payload = EmptyMap) =>
            /\ \A k \in (DOMAIN Old) \ {"updatedAt"} : response'.item[k] = Old[k]
            /\ response'.item["updatedAt"].n > response'.item["createdAt"].n ]_vars

\* C16: a delete that answers 200 leaves no record with the id in the
\* collection, and a delete of the same id that directly follows it answers
\* 404.
C16_SecondDeleteAnswers404 ==
    [][ /\ (request'.method = "DELETE" /\ response'.status = 200) =>
               \A i \in 1..Len(Answered') : Answered'[i]["_id"] # Str(request'.segs[3])
        /\ ( /\ response.handler = "delete"
             /\ response.status = 200
             /\ request'.method = "DELETE"
             /\ request'.segs = request.segs ) => response'.status = 404 ]_vars

\* A delete of an id that a delete has removed before has answered 404 (the
\* id "client1" leaves a collection by delete only)
C16_Witness ==
    /\ response.handler = "delete"
    /\ response.status = 404
    /\ request.segs[3] = "client1"
    /\ writes >= 1

\* The records without the first one that has the id
withoutFirst(items, id) ==
    LET idx == FindIndex(items, id)
    IN  IF idx = 0 THEN items
        ELSE SubSeq(items, 1, idx - 1) \o SubSeq(items, idx + 1, Len(items))

\* C38: a delete that answers 200 removes one record, the addressed one:
\* the collection is one record shorter, and its other records are there
\* unchanged and in the order they had.
C38_DeleteRemovesOneRecord ==
    [][ ( /\ request'.method = "DELETE"
          /\ response'.handler = "delete"
          /\ response'.status = 200
          /\ writes' = writes + 1 ) =>
            LET before == Collection(memoryStore, stack[response'.layer].entity)
                after  == Collection(memoryStore', stack[response'.layer].entity)
            IN  /\ Len(after) = Len(before) - 1
                /\ after = withoutFirst(before, request'.segs[3]) ]_vars

----------------------------------------------------------------------------
(* Properties of list *)

\* The last request was a list that answered 200
Listed == response.handler = "list" /\ response.status = 200

\* The configuration of the router that answered the last request
AnsweredConfig == stack[response.layer].config

\* How often a record occurs in a sequence of records
CountIn(items, r) == Cardinality({ i \in 1..Len(items) : items[i] = r })

RECURSIVE Flatten(_, _)
Flatten(pages, n) ==
    IF n = 0 THEN << >> ELSE Flatten(pages, n - 1) \o pages[n]

\* A page or limit parameter that is missing or not a positive integer
InvalidParam(str) ==
    \/ str = Absent
    \/ coerce(str).nan
    \/ coerce(str).n <= 0

\* C17: when a list request with a page size >= 1 (or none) was answered,
\* the pages 1, 2, ... the list handler returns for its search term and page
\* size on the collection as it is hold together as many records as the total
\* it reports, every page reports that total, and every record the search
\* selects is on exactly one page (as often as it is stored), no other record
\* on any.
C17_PagesPartitionMatches ==
    (Listed /\ (request.query.limit = Absent \/ ~InvalidParam(request.query.limit))) =>
        LET items  == Answered
            q      == request.query
            chosen == filterItems(variant, FALSE, AnsweredConfig, items,
                                  IF q.search = Absent THEN "" ELSE q.search)
            pageOf == [n \in 1..(Len(items) + 2) |->
                          listResult(variant, FALSE, AnsweredConfig, items,
                                     [page |-> ToString(n), limit |-> q.limit,
                                      search |-> q.search])]
            all    == Flatten([n \in 1..(Len(items) + 2) |-> pageOf[n].data],
                              Len(items) + 2)
        IN  /\ \A n \in 1..(Len(items) + 2) : pageOf[n].total = response.total
            /\ Len(all) = response.total
            /\ \A i \in 1..Len(items) : CountIn(all, items[i]) = CountIn(chosen, items[i])
            /\ \A i \in 1..Len(all) : CountIn(chosen, all[i]) > 0
            /\ ~InvalidParam(q.page) => response.items = pageOf[coerce(q.page).n].data

\* The second page of size 1 of a collection of several records was listed
C17_Witness ==
    /\ Listed
    /\ request.query.page = "2"
    /\ request.query.limit = "1"
    /\ Len(response.items) = 1
    /\ response.total >= 2
    /\ response.items[1] # Answered[1]

\* C18: when page (limit) is missing, non-numeric, zero or negative, the list
\* handler uses page 1 (limit 10): the pagination block reports it and the
\* data is that page of the result.
C18_InvalidPagingDefaults ==
    Listed =>
        LET q     == request.query
            page  == IF InvalidParam(q.page) THEN DefaultPage ELSE coerce(q.page).n
            limit == IF InvalidParam(q.limit) THEN DefaultLimit ELSE coerce(q.limit).n
            full  == listResult(variant, FALSE, AnsweredConfig, Answered,
                                [page |-> Absent, limit |-> Absent, search |-> q.search]).data
        IN  /\ response.page = JsNum(page)
            /\ response.limit = JsNum(limit)
            /\ response.items = SubSeq(full, (page - 1) * limit + 1,
                                       Min(page * limit, Len(full)))

\* C21: for the same collection contents and the same page, limit and search
\* parameters (page and limit missing or positive integers), the branch of
\* the list handler that reads the persistent store and the branch that reads
\* the in-process store return the same records in the same order and the
\* same total.
C21_StoreBranchesAgree ==
    ( /\ variant = "server_v2"
      /\ Listed
      /\ request.query.page = Absent \/ ~InvalidParam(request.query.page)
      /\ request.query.limit = Absent \/ ~InvalidParam(request.query.limit) ) =>
        LET viaModel  == listResult(variant, TRUE, AnsweredConfig, Answered, request.query)
            viaMemory == listResult(variant, FALSE, AnsweredConfig, Answered, request.query)
        IN  /\ viaMemory.data = response.items
            /\ viaModel.data = viaMemory.data
            /\ viaModel.total = viaMemory.total

\* A field declared with type "String" holds the term, whatever the case
TextMatch(cfg, item, term) ==
    \E f \in (DOMAIN cfg.schema) \cap (DOMAIN item) :
        /\ cfg.schema[f].type = "String"
        /\ item[f].t = "s"
        /\ includesLower(item[f].s, term)

\* C19: a list with a non-empty search term returns exactly the records in
\* which a field declared as text holds the term as a case-insensitive
\* substring (the whole result fits the default page).
C19_SearchMatchesTextFieldsOnly ==
    ( /\ Listed
      /\ request.query.search \notin {Absent, ""}
      /\ request.query.page = Absent
      /\ request.query.limit = Absent ) =>
        /\ \A i \in 1..Len(response.items) :
              TextMatch(AnsweredConfig, response.items[i], request.query.search)
        /\ \A i \in 1..Len(Answered) :
              TextMatch(AnsweredConfig, Answered[i], request.query.search)
                  => CountIn(response.items, Answered[i]) = CountIn(Answered, Answered[i])

\* The characters of the ids, in the order of their code units
CodeUnits == "0123456789ABCDEFGHIJKLMNOPQRSTUVWXYZ_abcdefghijklmnopqrstuvwxyz"

Rank(c) == CHOOSE i \in 1..Len(CodeUnits) : CharAt(CodeUnits, i) = c

\* a < b on strings
RECURSIVE StrLess(_, _)
StrLess(a, b) ==
    IF Len(b) = 0 THEN FALSE
    ELSE IF Len(a) = 0 THEN TRUE
    ELSE IF CharAt(a, 1) # CharAt(b, 1) THEN Rank(CharAt(a, 1)) < Rank(CharAt(b, 1))
    ELSE StrLess(SubSeq(a, 2, Len(a)), SubSeq(b, 2, Len(b)))

\* C20: the records of a list without sort parameters come most recently
\* created first, and records created at the same instant by ascending _id.
C20_ListOrder ==
    Listed =>
        \A i, j \in 1..Len(response.items) :
            i < j =>
                LET a == response.items[i]
                    b == response.items[j]
                IN  \/ a["createdAt"].n > b["createdAt"].n
                    \/ /\ a["createdAt"].n = b["createdAt"].n
                       /\ ~StrLess(b["_id"].s, a["_id"].s)

====
